---- MODULE Spec2Model ----
(***************************************************************************)
(* Frozen-Blog (Source/blog.py): the content index kept by Context, the    *)
(* Pagination helper and the request hooks that reload the index.          *)
(*                                                                         *)
(* A content root is a record [avail, files]: avail says whether the root  *)
(* directory can be read, files is the sequence of its content files in    *)
(* the order the MetaFiles walk discovers them.  A file is [path, yaml]:   *)
(* path is the derived path (metafiles_as_targets), yaml is what the       *)
(* metadata block parses to.  Bodies are left out: no index operation      *)
(* reads them.                                                             *)
(***************************************************************************)
EXTENDS Integers, Sequences, FiniteSets, TLC

VARIABLES
    pageRoot, postRoot,
    pages, pages_by_path, posts, posts_by_path, posts_by_tag,
    last,
    pag,
    wpc, wloc, rpc, seen,
    freezing, flagFirst, got_first_request, exited, nreq, loadCalls, req

envVars  == <<pageRoot, postRoot>>
ctxVars  == <<pages, pages_by_path, posts, posts_by_path, posts_by_tag>>
concVars == <<wpc, wloc, rpc, seen>>
reqVars  == <<freezing, flagFirst, got_first_request, exited, nreq, loadCalls, req>>
vars     == <<envVars, ctxVars, last, pag, concVars, reqVars>>

(***************************************************************************)
(* Bounds.                                                                 *)
(***************************************************************************)
\* files under the post root in the specification of a single load pass
MaxFiles == 2
\* items of the paginated sequence, and the range of page and per_page
MaxItems == 3
MaxPage == 3
\* requests served by one process
MaxRequests == 3

(***************************************************************************)
(* YAML values.  A value is a pair <<type, payload>>; Python compares two  *)
(* keys with < only when their types agree (a date against a string raises *)
(* TypeError), and iterates a list but not None.                           *)
(***************************************************************************)
YDate(n) == <<"date", n>>
YStr(n)  == <<"str", n>>
YList(s) == <<"list", s>>
YNone    == <<"none", <<>>>>

TagNames == {"x", "y"}

DateValues == {YDate(1), YDate(2), YStr(1)}
TagValues  == {YNone, YList(<<>>), YList(<<"x">>), YList(<<"x", "y">>), YList(<<"x", "x">>)}

\* a Python dict: a function on its set of keys
EmptyDict == [k \in {} |-> <<>>]

DictSet(d, k, v) == [x \in (DOMAIN d) \cup {k} |-> IF x = k THEN v ELSE d[x]]

\* a metadata mapping with the given optional keys
Absent == <<"absent", <<>>>>

MkMeta(d, t) ==
    [k \in (IF d = Absent THEN {} ELSE {"date"}) \cup (IF t = Absent THEN {} ELSE {"tags"})
        |-> IF k = "date" THEN d ELSE t]

\* what yaml.load returns for a metadata block: None for an empty block,
\* a mapping, or something else (here a list)
YamlNull   == [kind |-> "null", map |-> EmptyDict]
YamlSeq    == [kind |-> "seq", map |-> EmptyDict]
YamlMap(m) == [kind |-> "map", map |-> m]

AllMetas == {MkMeta(d, t) : d \in DateValues \cup {Absent}, t \in TagValues \cup {Absent}}
AllYaml  == {YamlNull, YamlSeq} \cup {YamlMap(m) : m \in AllMetas \ {EmptyDict}}

(***************************************************************************)
(* meta_renderer (lines 68-79): {} for empty metadata, ValueError for a    *)
(* value that is not a dict, the dict otherwise.                           *)
(***************************************************************************)
meta_renderer(y) ==
    IF y.kind = "null" THEN [err |-> "none", meta |-> EmptyDict]
    ELSE IF y.kind # "map" THEN [err |-> "ValueError", meta |-> EmptyDict]
    ELSE [err |-> "none", meta |-> y.map]

(***************************************************************************)
(* MetaFiles.load as Context calls it (lines 189, 209), followed by        *)
(* metafiles_as_targets (lines 139-150): an unreadable root raises, and so *)
(* does the first file whose metadata renderer raises (blog.py installs no *)
(* handler around the renderers it passes in); otherwise one Target        *)
(* [path, meta] per file, in discovery order.                              *)
(***************************************************************************)
RECURSIVE RenderAll(_)
RenderAll(files) ==
    IF files = <<>> THEN [err |-> "none", items |-> <<>>]
    ELSE LET r == meta_renderer(Head(files).yaml)
         IN  IF r.err # "none" THEN [err |-> r.err, items |-> <<>>]
             ELSE LET rest == RenderAll(Tail(files))
                  IN  IF rest.err # "none" THEN rest
                      ELSE [err |-> "none",
                            items |-> <<[path |-> Head(files).path, meta |-> r.meta]>> \o rest.items]

MetaFilesLoad(root) ==
    IF ~root.avail THEN [err |-> "OSError", items |-> <<>>]
    ELSE RenderAll(root.files)

\* d[t.path] = t for each t in order: the last Target of a path wins
RECURSIVE ByPath(_, _)
ByPath(d, items) ==
    IF items = <<>> THEN d
    ELSE ByPath(DictSet(d, Head(items).path, Head(items)), Tail(items))

(***************************************************************************)
(* Context.load_pages (lines 183-199).                                     *)
(***************************************************************************)
LoadPagesRun(root) ==
    LET l == MetaFilesLoad(root)
    IN  IF l.err # "none"
        THEN [err |-> l.err, phase |-> "load", pages |-> <<>>, pages_by_path |-> EmptyDict]
        ELSE [err |-> "none", phase |-> "done", pages |-> l.items,
              pages_by_path |-> ByPath(EmptyDict, l.items)]

\* what self.pages, self.pages_by_path hold when load_pages returns or raises
PagesPublished(old, run) ==
    IF run.err # "none" THEN old
    ELSE [pages |-> run.pages, pages_by_path |-> run.pages_by_path]

(***************************************************************************)
(* Context.load_posts (lines 201-231).                                     *)
(***************************************************************************)
\* lines 215-217: keep the Targets whose metadata has a 'date' key
HasDate(item) == "date" \in DOMAIN item.meta

DateFilter(items) == SelectSeq(items, HasDate)

DateOf(item) == item.meta["date"]

\* key(a) < key(b); only asked of keys of one type
KeyLess(a, b) == DateOf(a)[2] < DateOf(b)[2]

\* comparing keys of two types raises TypeError, and a sort of two or more
\* items compares every type present with another
SortRaises(items) ==
    \E i, j \in 1..Len(items) : DateOf(items[i])[1] # DateOf(items[j])[1]

Reverse(s) == [i \in 1..Len(s) |-> s[Len(s) + 1 - i]]

\* stable insertion: x goes after every item that is not greater than it
RECURSIVE InsertStable(_, _)
InsertStable(sorted, x) ==
    IF sorted = <<>> THEN <<x>>
    ELSE IF KeyLess(x, Head(sorted)) THEN <<x>> \o sorted
    ELSE <<Head(sorted)>> \o InsertStable(Tail(sorted), x)

RECURSIVE SortAscending(_, _)
SortAscending(acc, items) ==
    IF items = <<>> THEN acc
    ELSE SortAscending(InsertStable(acc, Head(items)), Tail(items))

\* a plausible slip: sort ascending and reverse the result, which turns the
\* equal-date posts around
SortThenReverse(items) == Reverse(SortAscending(<<>>, items))

\* list.sort(key, reverse = True), line 221: the list is reversed, sorted
\* stably in ascending order and reversed again, which keeps equal keys in
\* their original order
SortByDateDesc(items) == Reverse(SortAscending(<<>>, Reverse(items)))

\* post.meta.setdefault('tags', ['untagged']), line 224
SetDefaultTags(item) ==
    IF "tags" \in DOMAIN item.meta THEN item
    ELSE [item EXCEPT !.meta = DictSet(item.meta, "tags", YList(<<"untagged">>))]

TagsOf(item) == item.meta["tags"]

Iterable(v) == v[1] = "list"

\* lines 225-227 for one post
RECURSIVE AddTags(_, _, _)
AddTags(d, post, tags) ==
    IF tags = <<>> THEN d
    ELSE LET t == Head(tags)
             bucket == IF t \in DOMAIN d THEN d[t] ELSE <<>>
         IN  AddTags(DictSet(d, t, Append(bucket, post)), post, Tail(tags))

\* lines 223-227: the grouping loop; iterating tags that are not a list
\* raises TypeError at that post
RECURSIVE GroupByTag(_, _)
GroupByTag(d, ps) ==
    IF ps = <<>> THEN [err |-> "none", by_tag |-> d]
    ELSE LET post == SetDefaultTags(Head(ps))
         IN  IF ~Iterable(TagsOf(post)) THEN [err |-> "TypeError", by_tag |-> d]
             ELSE GroupByTag(AddTags(d, post, TagsOf(post)[2]), Tail(ps))

MapDefaultTags(ps) == [i \in 1..Len(ps) |-> SetDefaultTags(ps[i])]

\* the locals of load_posts when it reaches line 229, or the exception and
\* the phase that raised it.  The Targets of posts and posts_by_path are the
\* objects the grouping loop gave their default tags.
LoadPostsRun(root) ==
    LET l == MetaFilesLoad(root)
        failed(e, ph) == [err |-> e, phase |-> ph, posts |-> <<>>,
                          posts_by_path |-> EmptyDict, posts_by_tag |-> EmptyDict]
    IN  IF l.err # "none" THEN failed(l.err, "load")
        ELSE LET dated == DateFilter(l.items)
             IN  IF SortRaises(dated) THEN failed("TypeError", "sort")
                 ELSE LET sorted == SortByDateDesc(dated)
                          g == GroupByTag(EmptyDict, sorted)
                      IN  IF g.err # "none"
                          THEN [err |-> g.err, phase |-> "group",
                                posts |-> sorted,
                                posts_by_path |-> ByPath(EmptyDict, dated),
                                posts_by_tag |-> g.by_tag]
                          ELSE [err |-> "none", phase |-> "done",
                                posts |-> MapDefaultTags(sorted),
                                posts_by_path |-> ByPath(EmptyDict, MapDefaultTags(dated)),
                                posts_by_tag |-> g.by_tag]

\* a plausible slip: posts and posts_by_path assigned before the grouping loop
PostsPublishedEarly(old, run) ==
    IF run.err = "none" \/ run.phase = "group"
    THEN [posts |-> run.posts, posts_by_path |-> run.posts_by_path,
          posts_by_tag |-> IF run.err = "none" THEN run.posts_by_tag ELSE old.posts_by_tag]
    ELSE old

\* what self.posts, self.posts_by_path, self.posts_by_tag hold when
\* load_posts returns or raises: lines 229-231 are its last statements
PostsPublished(old, run) ==
    IF run.err # "none" THEN old
    ELSE [posts |-> run.posts, posts_by_path |-> run.posts_by_path,
          posts_by_tag |-> run.posts_by_tag]

CtxPages == [pages |-> pages, pages_by_path |-> pages_by_path]
CtxPosts == [posts |-> posts, posts_by_path |-> posts_by_path, posts_by_tag |-> posts_by_tag]

\* the record of the last call on the Context
NoCall == [op |-> "none", pagesErr |-> "none", postsTried |-> FALSE,
           postsErr |-> "none", phase |-> "none"]

(***************************************************************************)
(* Calls on the Context.  Each action is one whole call; last records what *)
(* the call was and how it ended.                                          *)
(***************************************************************************)
IdlePag == [done |-> FALSE, n |-> 0, page |-> 1, per_page |-> 1,
            total_pages |-> [err |-> "none", val |-> 0],
            has_prev |-> FALSE,
            has_next |-> [err |-> "none", val |-> FALSE],
            items |-> [err |-> "none", val |-> <<>>]]

NoSnapshot == [posts |-> <<>>, posts_by_path |-> EmptyDict, posts_by_tag |-> EmptyDict]

NoRequest == [endpoint |-> "", first |-> FALSE, initLoads |-> 0, updateLoads |-> 0,
              viewRan |-> FALSE]

\* Context.__init__, lines 156-165
InitCtx ==
    /\ pages = <<>>
    /\ pages_by_path = EmptyDict
    /\ posts = <<>>
    /\ posts_by_path = EmptyDict
    /\ posts_by_tag = EmptyDict

InitPagIdle == pag = IdlePag

InitConcIdle ==
    /\ wpc = "idle"
    /\ wloc = NoSnapshot
    /\ rpc = "idle"
    /\ seen = NoSnapshot

InitReqIdle ==
    /\ freezing = FALSE
    /\ flagFirst = TRUE
    /\ got_first_request = FALSE
    /\ exited = FALSE
    /\ nreq = 0
    /\ loadCalls = 0
    /\ req = NoRequest

load_pages ==
    LET run == LoadPagesRun(pageRoot)
        pub == PagesPublished(CtxPages, run)
    IN  /\ pages' = pub.pages
        /\ pages_by_path' = pub.pages_by_path
        /\ last' = [op |-> "load_pages", pagesErr |-> run.err, postsTried |-> FALSE,
                    postsErr |-> "none", phase |-> run.phase]
        /\ UNCHANGED <<envVars, posts, posts_by_path, posts_by_tag, pag, concVars, reqVars>>

load_posts ==
    LET run == LoadPostsRun(postRoot)
        pub == PostsPublished(CtxPosts, run)
    IN  /\ posts' = pub.posts
        /\ posts_by_path' = pub.posts_by_path
        /\ posts_by_tag' = pub.posts_by_tag
        /\ last' = [op |-> "load_posts", pagesErr |-> "none", postsTried |-> TRUE,
                    postsErr |-> run.err, phase |-> run.phase]
        /\ UNCHANGED <<envVars, pages, pages_by_path, pag, concVars, reqVars>>

\* Context.load (lines 233-236): the state and the outcome of
\* self.load_pages() followed by self.load_posts(); an exception of
\* load_pages leaves load before load_posts is called
LoadRun(oldPages, oldPosts, proot, qroot) ==
    LET r1 == LoadPagesRun(proot)
        r2 == LoadPostsRun(qroot)
    IN  IF r1.err # "none"
        THEN [pages |-> PagesPublished(oldPages, r1), posts |-> oldPosts,
              pagesErr |-> r1.err, postsTried |-> FALSE, postsErr |-> "none",
              phase |-> r1.phase]
        ELSE [pages |-> PagesPublished(oldPages, r1), posts |-> PostsPublished(oldPosts, r2),
              pagesErr |-> "none", postsTried |-> TRUE, postsErr |-> r2.err,
              phase |-> r2.phase]

LoadRaised(r) == r.pagesErr # "none" \/ r.postsErr # "none"

load ==
    LET r == LoadRun(CtxPages, CtxPosts, pageRoot, postRoot)
    IN  /\ pages' = r.pages.pages
        /\ pages_by_path' = r.pages.pages_by_path
        /\ posts' = r.posts.posts
        /\ posts_by_path' = r.posts.posts_by_path
        /\ posts_by_tag' = r.posts.posts_by_tag
        /\ last' = [op |-> "load", pagesErr |-> r.pagesErr, postsTried |-> r.postsTried,
                    postsErr |-> r.postsErr, phase |-> r.phase]
        /\ UNCHANGED <<envVars, pag, concVars, reqVars>>

(***************************************************************************)
(* The content roots change between calls: the author writes a file,       *)
(* removes one, or a root directory becomes unreadable or readable again.  *)
(***************************************************************************)
ReloadPostPaths == {"a", "b"}
ReloadPagePaths == {"about"}

ReloadPostYaml ==
    {YamlSeq, YamlNull,
     YamlMap(MkMeta(YDate(1), Absent)),
     YamlMap(MkMeta(YDate(2), YList(<<"x">>))),
     YamlMap(MkMeta(YStr(1), Absent)),
     YamlMap(MkMeta(YDate(1), YNone))}

ReloadPageYaml == {YamlSeq, YamlNull}

PathsIn(files) == {files[i].path : i \in 1..Len(files)}

WriteFile(files, p, y) ==
    IF p \in PathsIn(files)
    THEN [i \in 1..Len(files) |-> IF files[i].path = p THEN [path |-> p, yaml |-> y] ELSE files[i]]
    ELSE Append(files, [path |-> p, yaml |-> y])

RemoveFile(files, p) == SelectSeq(files, LAMBDA f : f.path # p)

WritePost ==
    /\ \E p \in ReloadPostPaths, y \in ReloadPostYaml :
          /\ postRoot' = [postRoot EXCEPT !.files = WriteFile(postRoot.files, p, y)]
          /\ postRoot' # postRoot
    /\ last' = NoCall
    /\ UNCHANGED <<pageRoot, ctxVars, pag, concVars, reqVars>>

RemovePost ==
    /\ \E p \in PathsIn(postRoot.files) :
          postRoot' = [postRoot EXCEPT !.files = RemoveFile(postRoot.files, p)]
    /\ last' = NoCall
    /\ UNCHANGED <<pageRoot, ctxVars, pag, concVars, reqVars>>

WritePage ==
    /\ \E p \in ReloadPagePaths, y \in ReloadPageYaml :
          /\ pageRoot' = [pageRoot EXCEPT !.files = WriteFile(pageRoot.files, p, y)]
          /\ pageRoot' # pageRoot
    /\ last' = NoCall
    /\ UNCHANGED <<postRoot, ctxVars, pag, concVars, reqVars>>

RemovePage ==
    /\ \E p \in PathsIn(pageRoot.files) :
          pageRoot' = [pageRoot EXCEPT !.files = RemoveFile(pageRoot.files, p)]
    /\ last' = NoCall
    /\ UNCHANGED <<postRoot, ctxVars, pag, concVars, reqVars>>

TogglePostRoot ==
    /\ postRoot' = [postRoot EXCEPT !.avail = ~postRoot.avail]
    /\ last' = NoCall
    /\ UNCHANGED <<pageRoot, ctxVars, pag, concVars, reqVars>>

TogglePageRoot ==
    /\ pageRoot' = [pageRoot EXCEPT !.avail = ~pageRoot.avail]
    /\ last' = NoCall
    /\ UNCHANGED <<postRoot, ctxVars, pag, concVars, reqVars>>

EmptyRoot == [avail |-> TRUE, files |-> <<>>]

Init ==
    /\ pageRoot = EmptyRoot
    /\ postRoot = EmptyRoot
    /\ InitCtx
    /\ last = NoCall
    /\ InitPagIdle
    /\ InitConcIdle
    /\ InitReqIdle

Next ==
    \/ load_pages
    \/ load_posts
    \/ load
    \/ WritePost
    \/ RemovePost
    \/ WritePage
    \/ RemovePage
    \/ TogglePostRoot
    \/ TogglePageRoot

Spec == Init /\ [][Next]_vars

(***************************************************************************)
(* One load pass over any post root of at most MaxFiles files.  Paths are  *)
(* named by discovery position: load_posts uses a path only as a key.      *)
(***************************************************************************)
PathName(i) == <<"post", i>>

PostDisks(max) ==
    UNION {{[i \in 1..n |-> [path |-> PathName(i), yaml |-> ys[i]]] : ys \in [1..n -> AllYaml]}
           : n \in 0..max}

InitPosts ==
    /\ pageRoot = EmptyRoot
    /\ postRoot \in [avail : {TRUE}, files : PostDisks(MaxFiles)]
    /\ InitCtx
    /\ last = NoCall
    /\ InitPagIdle
    /\ InitConcIdle
    /\ InitReqIdle

NextPosts == load_posts

SpecPosts == InitPosts /\ [][NextPosts]_vars

(***************************************************************************)
(* Pagination (lines 260-293).                                             *)
(***************************************************************************)
\* int(math.ceil(a / b)) for a >= 0: true division, ZeroDivisionError for b = 0
CeilDiv(a, b) ==
    IF b > 0 THEN (a + b - 1) \div b
    ELSE 0 - (a \div (0 - b))

total_pages(n, per_page) ==
    IF per_page = 0 THEN [err |-> "ZeroDivisionError", val |-> 0]
    ELSE [err |-> "none", val |-> CeilDiv(n, per_page)]

has_prev(page) == page > 1

has_next(n, page, per_page) ==
    LET t == total_pages(n, per_page)
    IN  IF t.err # "none" THEN [err |-> t.err, val |-> FALSE]
        ELSE [err |-> "none", val |-> page < t.val]

\* a slice bound of a sequence of n items: a negative bound counts from the
\* end, and the result is clamped to 0..n
SliceBound(n, i) ==
    LET j == IF i < 0 THEN i + n ELSE i
    IN  IF j < 0 THEN 0 ELSE IF j > n THEN n ELSE j

\* iterable[start:stop]
PySlice(seq, start, stop) ==
    LET lo == SliceBound(Len(seq), start)
        hi == SliceBound(Len(seq), stop)
    IN  IF lo >= hi THEN <<>> ELSE SubSeq(seq, lo + 1, hi)

items(seq, page, per_page) ==
    LET index  == page - 1
        offset == index * per_page
        length == offset + per_page
    IN  [err |-> "none", val |-> PySlice(seq, offset, length)]

Iterable0(n) == [i \in 1..n |-> i]

InitPag ==
    /\ pageRoot = EmptyRoot
    /\ postRoot = EmptyRoot
    /\ InitCtx
    /\ last = NoCall
    /\ \E n \in 0..MaxItems, pg \in (0 - MaxPage)..MaxPage, pp \in (0 - MaxPage)..MaxPage :
          pag = [IdlePag EXCEPT !.n = n, !.page = pg, !.per_page = pp]
    /\ InitConcIdle
    /\ InitReqIdle

\* a template reads every property of paginate(iterable, page, per_page)
Paginate ==
    /\ ~pag.done
    /\ pag' = [pag EXCEPT !.done = TRUE,
                          !.total_pages = total_pages(pag.n, pag.per_page),
                          !.has_prev = has_prev(pag.page),
                          !.has_next = has_next(pag.n, pag.page, pag.per_page),
                          !.items = items(Iterable0(pag.n), pag.page, pag.per_page)]
    /\ UNCHANGED <<envVars, ctxVars, last, concVars, reqVars>>

NextPag == Paginate

SpecPag == InitPag /\ [][NextPag]_vars

(***************************************************************************)
(* Two request threads: one is inside load_posts (lines 209-231), the      *)
(* other builds Context.environment (lines 241-247).  Each attribute       *)
(* assignment and each attribute read is a step of its own.                *)
(***************************************************************************)
InitConc ==
    /\ pageRoot = EmptyRoot
    /\ postRoot \in [avail : {TRUE}, files : PostDisks(1)]
    /\ InitCtx
    /\ last = NoCall
    /\ InitPagIdle
    /\ InitConcIdle
    /\ InitReqIdle

\* lines 209-227: the locals are built; an exception ends the call
W_Build ==
    /\ wpc = "idle"
    /\ LET run == LoadPostsRun(postRoot)
       IN  /\ run.err = "none"
           /\ wloc' = [posts |-> run.posts, posts_by_path |-> run.posts_by_path,
                       posts_by_tag |-> run.posts_by_tag]
    /\ wpc' = "l229"
    /\ UNCHANGED <<envVars, ctxVars, last, pag, rpc, seen, reqVars>>

W_229 ==
    /\ wpc = "l229"
    /\ posts' = wloc.posts
    /\ wpc' = "l230"
    /\ UNCHANGED <<envVars, pages, pages_by_path, posts_by_path, posts_by_tag, last, pag,
                   wloc, rpc, seen, reqVars>>

W_230 ==
    /\ wpc = "l230"
    /\ posts_by_path' = wloc.posts_by_path
    /\ wpc' = "l231"
    /\ UNCHANGED <<envVars, pages, pages_by_path, posts, posts_by_tag, last, pag,
                   wloc, rpc, seen, reqVars>>

W_231 ==
    /\ wpc = "l231"
    /\ posts_by_tag' = wloc.posts_by_tag
    /\ wpc' = "idle"
    /\ UNCHANGED <<envVars, pages, pages_by_path, posts, posts_by_path, last, pag,
                   wloc, rpc, seen, reqVars>>

R_Begin ==
    /\ rpc \in {"idle", "done"}
    /\ rpc' = "l244"
    /\ seen' = NoSnapshot
    /\ UNCHANGED <<envVars, ctxVars, last, pag, wpc, wloc, reqVars>>

R_244 ==
    /\ rpc = "l244"
    /\ seen' = [seen EXCEPT !.posts = posts]
    /\ rpc' = "l245"
    /\ UNCHANGED <<envVars, ctxVars, last, pag, wpc, wloc, reqVars>>

R_245 ==
    /\ rpc = "l245"
    /\ seen' = [seen EXCEPT !.posts_by_path = posts_by_path]
    /\ rpc' = "l246"
    /\ UNCHANGED <<envVars, ctxVars, last, pag, wpc, wloc, reqVars>>

R_246 ==
    /\ rpc = "l246"
    /\ seen' = [seen EXCEPT !.posts_by_tag = posts_by_tag]
    /\ rpc' = "done"
    /\ UNCHANGED <<envVars, ctxVars, last, pag, wpc, wloc, reqVars>>

NextConc ==
    \/ W_Build
    \/ W_229
    \/ W_230
    \/ W_231
    \/ R_Begin
    \/ R_244
    \/ R_245
    \/ R_246

SpecConc == InitConc /\ [][NextConc]_vars

(***************************************************************************)
(* Requests (lines 298-325, 462-474).  main sets blog.freezing before the  *)
(* first request.  Flask runs init_context before the first request and    *)
(* auto_update_context before every request; flagFirst says whether Flask  *)
(* marks the first request as seen before it runs init_context or only     *)
(* after init_context returned.  An exception in freeze mode ends the      *)
(* process (run_freezer, lines 419-427).                                   *)
(***************************************************************************)
\* blog.view_functions: the four routes and Flask's own 'static'
ViewFunctions == {"index", "archive", "page", "post", "static"}

\* request.endpoint; "none" when no route matches
Endpoints == ViewFunctions \cup {"none"}

\* a plausible slip: the freezing test left out
AutoUpdateNoFreezeTest(fr, ep) ==
    IF ep = "static" THEN FALSE
    ELSE ep \in ViewFunctions

\* auto_update_context (lines 312-325): whether it calls context.load()
AutoUpdateLoads(fr, ep) ==
    IF fr THEN FALSE
    ELSE IF ep = "static" THEN FALSE
    ELSE ep \in ViewFunctions

InitServe ==
    /\ pageRoot = EmptyRoot
    /\ postRoot \in [avail : BOOLEAN, files : PostDisks(1)]
    /\ InitCtx
    /\ last = NoCall
    /\ InitPagIdle
    /\ InitConcIdle
    /\ freezing \in BOOLEAN
    /\ flagFirst \in BOOLEAN
    /\ got_first_request = FALSE
    /\ exited = FALSE
    /\ nreq = 0
    /\ loadCalls = 0
    /\ req = NoRequest

Request ==
    /\ ~exited
    /\ nreq < MaxRequests
    /\ \E ep \in Endpoints :
        LET first == ~got_first_request
            ctx0  == [pages |-> CtxPages, posts |-> CtxPosts]
            \* init_context (lines 307-310)
            r1    == LoadRun(CtxPages, CtxPosts, pageRoot, postRoot)
            fail1 == first /\ LoadRaised(r1)
            ctx1  == IF first THEN [pages |-> r1.pages, posts |-> r1.posts] ELSE ctx0
            \* auto_update_context (lines 312-325)
            upd   == ~fail1 /\ AutoUpdateLoads(freezing, ep)
            r2    == LoadRun(ctx1.pages, ctx1.posts, pageRoot, postRoot)
            fail2 == upd /\ LoadRaised(r2)
            ctx2  == IF upd THEN [pages |-> r2.pages, posts |-> r2.posts] ELSE ctx1
        IN  /\ got_first_request' = (got_first_request \/ flagFirst \/ ~fail1)
            /\ pages' = ctx2.pages.pages
            /\ pages_by_path' = ctx2.pages.pages_by_path
            /\ posts' = ctx2.posts.posts
            /\ posts_by_path' = ctx2.posts.posts_by_path
            /\ posts_by_tag' = ctx2.posts.posts_by_tag
            /\ req' = [endpoint |-> ep,
                       first |-> first,
                       initLoads |-> IF first THEN 1 ELSE 0,
                       updateLoads |-> IF upd THEN 1 ELSE 0,
                       viewRan |-> ~fail1 /\ ~fail2 /\ ep \in ViewFunctions]
            /\ loadCalls' = loadCalls + (IF first THEN 1 ELSE 0) + (IF upd THEN 1 ELSE 0)
            /\ exited' = (freezing /\ (fail1 \/ fail2))
    /\ nreq' = nreq + 1
    /\ UNCHANGED <<envVars, last, pag, concVars, freezing, flagFirst>>

NextServe ==
    \/ Request
    \/ TogglePostRoot

SpecServe == InitServe /\ [][NextServe]_vars

(***************************************************************************)
(* Properties.                                                             *)
(***************************************************************************)
LoadPostsOk == last.op = "load_posts" /\ last.postsErr = "none"

\* C1: reload isolation.  A call of load_posts (alone or inside load) that
\* raises, whatever the phase that raised (the MetaFiles load, the sort, the
\* grouping loop), leaves posts, posts_by_path and posts_by_tag equal to
\* what they were before the call; a call of load_pages that raises leaves
\* pages and pages_by_path equal to what they were.
C1_ReloadIsolation ==
    [][ /\ (last'.op \in {"load_posts", "load"} /\ last'.postsErr # "none")
            => /\ posts' = posts
               /\ posts_by_path' = posts_by_path
               /\ posts_by_tag' = posts_by_tag
        /\ (last'.op \in {"load_pages", "load"} /\ last'.pagesErr # "none")
            => /\ pages' = pages
               /\ pages_by_path' = pages_by_path ]_vars

\* a load_posts that raised in the grouping loop, after its locals posts and
\* posts_by_path were complete, over an index that holds posts
C1_Witness ==
    /\ last.op = "load_posts"
    /\ last.postsErr = "TypeError"
    /\ last.phase = "group"
    /\ posts # <<>>
    /\ LoadPostsRun(postRoot).posts # posts

\* C2: per-file failure isolation.  Over a readable post root that holds one
\* file whose metadata is not a mapping among N >= 1 files that load as N posts,
\* load_posts returns without raising and posts has exactly the N entries.
C2_PerFileIsolation ==
    LET others == SelectSeq(postRoot.files, LAMBDA f : f.yaml.kind # "seq")
        alone  == LoadPostsRun([avail |-> TRUE, files |-> others])
    IN  ( /\ last.op = "load_posts"
          /\ postRoot.avail
          /\ Len(others) = Len(postRoot.files) - 1
          /\ Len(others) >= 1
          /\ alone.err = "none"
          /\ Len(alone.posts) = Len(others) )
        => /\ last.postsErr = "none"
           /\ Len(posts) = Len(others)
           /\ PathsIn(posts) = PathsIn(others)

\* C3: load() attempts both loads on every call, and a failure of the posts
\* load leaves the pages that its pages load published.
C3_LoadAttemptsBoth ==
    last.op = "load"
        => /\ last.postsTried
           /\ (last.pagesErr = "none" /\ last.postsErr # "none")
                => CtxPages = PagesPublished(CtxPages, LoadPagesRun(pageRoot))

\* C4: a reader that builds the environment while load_posts runs in another
\* request sees posts, posts_by_path and posts_by_tag all from before the
\* load or all from the load.
C4_SnapshotAtomic ==
    rpc = "done"
        => \/ seen = NoSnapshot
           \/ seen = PostsPublished(NoSnapshot, LoadPostsRun(postRoot))

DiscoveryIndex(path) == CHOOSE k \in 1..Len(postRoot.files) : postRoot.files[k].path = path

\* C5: after a successful load_posts, a post with a greater date precedes
\* every post with a smaller date, and posts of equal date stand in the
\* order in which the loader discovered their files.
C5_SortedByDateDesc ==
    LoadPostsOk =>
        \A i, j \in 1..Len(posts) :
            /\ DateOf(posts[i])[2] > DateOf(posts[j])[2] => i < j
            /\ (DateOf(posts[i]) = DateOf(posts[j]) /\ i < j)
                  => DiscoveryIndex(posts[i].path) < DiscoveryIndex(posts[j].path)

\* a successful load of two posts of one date together with another file
\* or just the pair
C5_Witness ==
    /\ LoadPostsOk
    /\ \E i, j \in 1..Len(posts) : i < j /\ DateOf(posts[i]) = DateOf(posts[j])

\* the tags a post counts as having: ["untagged"] when tags is absent or empty
EffectiveTags(post) ==
    IF "tags" \notin DOMAIN post.meta THEN {"untagged"}
    ELSE IF TagsOf(post)[2] = <<>> THEN {"untagged"}
    ELSE {TagsOf(post)[2][k] : k \in 1..Len(TagsOf(post)[2])}

Bucket(t) == IF t \in DOMAIN posts_by_tag THEN posts_by_tag[t] ELSE <<>>

\* C6: after a successful load_posts, for every tag t, posts_by_tag[t] is
\* the subsequence of posts whose tags (["untagged"] when absent or empty)
\* contain t, each such post once.
C6_TagBuckets ==
    LoadPostsOk =>
        \A t \in TagNames \cup {"untagged"} \cup DOMAIN posts_by_tag :
            Bucket(t) = SelectSeq(posts, LAMBDA p : t \in EffectiveTags(p))

InSomeBucket(path) ==
    \E t \in DOMAIN posts_by_tag : path \in PathsIn(posts_by_tag[t])

\* C7: after a successful load_posts, a file of the post root is in posts,
\* in posts_by_path and in some bucket of posts_by_tag exactly when its
\* metadata has a date key, and loading again over the unchanged files
\* yields the same three structures.
C7_DraftFilter ==
    LoadPostsOk =>
        /\ \A k \in 1..Len(postRoot.files) :
              LET f == postRoot.files[k]
              IN  ("date" \in DOMAIN meta_renderer(f.yaml).meta)
                    <=> /\ f.path \in PathsIn(posts)
                        /\ f.path \in DOMAIN posts_by_path
                        /\ InSomeBucket(f.path)
        /\ PostsPublished(CtxPosts, LoadPostsRun(postRoot)) = CtxPosts

PageRange(n, per_page) == 1..total_pages(n, per_page).val

\* C8: for per_page >= 1 and every integer page, items raises nothing and
\* returns the items from offset (page-1)*per_page on, at most per_page of
\* them; for a page outside 1..total_pages it returns the empty sequence.
C8_ItemsWindow ==
    (pag.done /\ pag.per_page >= 1) =>
        LET seq    == Iterable0(pag.n)
            offset == (pag.page - 1) * pag.per_page
            stop   == IF offset + pag.per_page > pag.n THEN pag.n ELSE offset + pag.per_page
        IN  /\ pag.items.err = "none"
            /\ pag.items.val = IF pag.page \in PageRange(pag.n, pag.per_page)
                               THEN SubSeq(seq, offset + 1, stop)
                               ELSE <<>>

\* C9: for per_page <= 0, total_pages, has_next and items each signal an error.
C9_PerPageChecked ==
    (pag.done /\ pag.per_page <= 0) =>
        /\ pag.total_pages.err # "none"
        /\ pag.has_next.err # "none"
        /\ pag.items.err # "none"

Loads(r) == r.initLoads + r.updateLoads

\* C10, as claimed: in serve mode a request for a view other than 'static'
\* calls context.load() and a request for a static file or an unknown
\* endpoint calls it not at all; in freeze mode load is called exactly once,
\* at the first request.
C10_ReloadTriggering ==
    nreq >= 1 =>
        /\ ~freezing =>
              /\ req.endpoint \in ViewFunctions \ {"static"} => Loads(req) >= 1
              /\ req.viewRan /\ req.endpoint # "static" => Loads(req) >= 1
              /\ req.endpoint \in {"static", "none"} => Loads(req) = 0
        /\ freezing =>
              /\ loadCalls = 1
              /\ nreq > 1 => Loads(req) = 0

\* C10, amended: as claimed, except that a request for a static file or an
\* unknown endpoint is not reloaded for by auto_update_context but calls
\* load through init_context when it is the request that runs the
\* before_first_request hook.
C10_ReloadTriggeringAmended ==
    nreq >= 1 =>
        /\ ~freezing =>
              /\ req.endpoint \in ViewFunctions \ {"static"} => Loads(req) >= 1
              /\ req.viewRan /\ req.endpoint # "static" => req.updateLoads = 1
              /\ req.endpoint \in {"static", "none"} =>
                    /\ req.updateLoads = 0
                    /\ req.initLoads = (IF req.first THEN 1 ELSE 0)
        /\ freezing =>
              /\ loadCalls = 1
              /\ nreq > 1 => Loads(req) = 0

\* in serve mode, a first request that is for a static file
C10_Witness ==
    /\ ~freezing
    /\ req.endpoint = "static"
    /\ req.first
    /\ req.initLoads = 1
    /\ nreq = 1

====
